---- MODULE Spec2Model ----
(***************************************************************************)
(* cpdl: recovery of (type, x, y, z) records from a binary blob whose      *)
(* record size, header length and byte order are unknown.                  *)
(*                                                                         *)
(* Two programs share the search (src/cpdl.cpp and src/unnamed/part_000):  *)
(* cpdl.cpp lists the records on the console, part_000 writes them to      *)
(* map_unpacked.txt.  Both are modelled; they are identical up to the      *)
(* summary lines.                                                          *)
(*                                                                         *)
(* A 32-bit value is the pair <<hi, lo>> of its 16-bit halves, a float is  *)
(* its IEEE-754 bit pattern in the same form (memcpy keeps the bits).      *)
(***************************************************************************)
EXTENDS Integers, Sequences, FiniteSets

VARIABLES
    pc,             \* control position of main / tryRecordSize
    input,          \* content of map.pdl
    buffer,         \* Buffer returned by fileLoader::Load
    sizeIdx,        \* position of the range-for over candidateRecordSizes
    frame,          \* locals of the running tryRecordSize call
    objsBE, headerBE, objsLE, headerLE,
    bestObjects, bestSize, bestHeader, detectedEndian,
    listIdx,        \* loop index of the output loop
    typeCounts,     \* std::map<uint32_t,int> of cpdl.cpp
    stdout, stderr, outFile, exitStatus,
    scans,          \* history: the (size, order, offset) scans started
    nScans,         \* history: how many scans were started
    decodes,        \* history: record decodes done by the running scan
    maxIndexRead,   \* history: highest byte index of buffer read so far
    rt              \* reader harness: value, bytes and read results

vars == <<pc, input, buffer, sizeIdx, frame, objsBE, headerBE, objsLE,
          headerLE, bestObjects, bestSize, bestHeader, detectedEndian,
          listIdx, typeCounts, stdout, stderr, outFile, exitStatus,
          scans, nScans, decodes, maxIndexRead, rt>>

mainVars == <<objsBE, headerBE, objsLE, headerLE, bestObjects, bestSize,
              bestHeader, detectedEndian>>
outVars == <<listIdx, typeCounts, stdout, stderr, outFile, exitStatus>>

(***************************************************************************)
(* Bounds of the model.                                                    *)
(***************************************************************************)
\* longest modelled input, in 4-byte words
MaxWords == 20

(***************************************************************************)
(* Program constants.                                                      *)
(***************************************************************************)
candidateRecordSizes == <<16, 20, 24, 32>>
HeaderLimit == 64
HeaderStep == 4
Big == "Big"
Little == "Little"
VehicleId == <<52446, 23013>>       \* 3437124069
RoadId == <<22323, 28389>>          \* 1462988517
\* 100000.0f is 0x47C35000
ThresholdHi == 18371
ThresholdLo == 20480

(***************************************************************************)
(* Pure functions of the source.                                           *)
(***************************************************************************)
getTypeName(type) ==
    IF type = VehicleId THEN "Vehicle"
    ELSE IF type = RoadId THEN "Road"
    ELSE "Object"

\* std::abs(float): the sign bit is cleared
FAbs(f) == <<f[1] % 32768, f[2]>>

\* exponent all ones and a non-zero mantissa
IsNaN(f) == /\ (f[1] % 32768) \div 128 = 255
            /\ ((f[1] % 128) # 0 \/ f[2] # 0)

\* a < b on floats that are not negative: bit patterns order as the values;
\* a comparison with a NaN is false
FLess(a, b) ==
    /\ ~IsNaN(a)
    /\ ~IsNaN(b)
    /\ (a[1] < b[1] \/ (a[1] = b[1] /\ a[2] < b[2]))

\* the threshold itself passes
isReasonableCoordInclusive(f) ==
    \/ FLess(FAbs(f), <<ThresholdHi, ThresholdLo>>)
    \/ FAbs(f) = <<ThresholdHi, ThresholdLo>>

isReasonableCoord(f) == FLess(FAbs(f), <<ThresholdHi, ThresholdLo>>)

\* data[i] of a read at base: a read past the end of the buffer is undefined
\* behaviour and yields the arbitrary byte junk
ByteAt(data, i, junk) == IF i < Len(data) THEN data[i + 1] ELSE junk

\* the shifted bytes occupy disjoint bits, so | is +
readBEUInt32(data, base, junk) ==
    << ByteAt(data, base, junk) * 256 + ByteAt(data, base + 1, junk),
       ByteAt(data, base + 2, junk) * 256 + ByteAt(data, base + 3, junk) >>

readBEFloat(data, base, junk) == readBEUInt32(data, base, junk)

\* the two middle bytes taken in the wrong order
readLEUInt32Swapped(data, base, junk) ==
    << ByteAt(data, base + 3, junk) * 256 + ByteAt(data, base + 1, junk),
       ByteAt(data, base + 2, junk) * 256 + ByteAt(data, base, junk) >>

readLEUInt32(data, base, junk) ==
    << ByteAt(data, base + 3, junk) * 256 + ByteAt(data, base + 2, junk),
       ByteAt(data, base + 1, junk) * 256 + ByteAt(data, base, junk) >>

readLEFloat(data, base, junk) == readLEUInt32(data, base, junk)

\* the PDLObject decoded at offset (lines 77-90)
DecodeObject(data, offset, endian, junk) ==
    IF endian = Big
    THEN [type   |-> readBEUInt32(data, offset, junk),
          x      |-> readBEFloat(data, offset + 4, junk),
          y      |-> readBEFloat(data, offset + 8, junk),
          z      |-> readBEFloat(data, offset + 12, junk),
          offset |-> offset]
    ELSE [type   |-> readLEUInt32(data, offset, junk),
          x      |-> readLEFloat(data, offset + 4, junk),
          y      |-> readLEFloat(data, offset + 8, junk),
          z      |-> readLEFloat(data, offset + 12, junk),
          offset |-> offset]

Plausible(obj) ==
    isReasonableCoord(obj.x) /\ isReasonableCoord(obj.y) /\ isReasonableCoord(obj.z)

\* only the start of the record is checked against the size
WhileCondStartOnly(offset, recordSize, size) == offset < size

\* while (offset + recordSize <= buffer.size())
WhileCond(offset, recordSize, size) == offset + recordSize <= size

ForCondInclusive(headerOffset) == headerOffset <= HeaderLimit

\* for (...; headerOffset < 64; headerOffset += 4)
ForCond(headerOffset) == headerOffset < HeaderLimit

RunBeatsOrTies(objects, result) == Len(objects) >= Len(result)

\* if (objects.size() > result.size())
RunBeats(objects, result) == Len(objects) > Len(result)

CandidateBeatsOrTies(objs, best) == Len(objs) >= Len(best)

\* if (objsBE.size() > bestObjects.size()), if (objsLE.size() > bestObjects.size())
CandidateBeats(objs, best) == Len(objs) > Len(best)

(***************************************************************************)
(* Inputs.  A word is 4 bytes.  The filler word at index i is 00 00 00 i:  *)
(* a small plausible float in both byte orders, different at every index.  *)
(***************************************************************************)
Filler(i) == <<0, 0, 0, i + 1>>
\* 100000.0f big-endian: implausible big-endian, plausible little-endian
WThreshold == <<71, 195, 80, 0>>
\* 99999.99f big-endian: plausible big-endian, implausible little-endian
WBelow == <<71, 195, 79, 255>>
\* the Vehicle and Road type ids big-endian: implausible in both orders
WVehicle == <<204, 222, 89, 229>>
WRoad == <<87, 51, 110, 229>>

SpecialWords == {WThreshold, WVehicle}

Reverse(bytes) == [i \in 1..Len(bytes) |-> bytes[Len(bytes) + 1 - i]]

RECURSIVE Flatten(_)
Flatten(ws) == IF ws = <<>> THEN <<>> ELSE Head(ws) \o Flatten(Tail(ws))

\* nw filler words and extra trailing zero bytes
PlainInput(nw, extra) ==
    Flatten([i \in 1..nw |-> Filler(i - 1)]) \o [j \in 1..extra |-> 0]

\* nw words, the word at index p replaced by w
OneSpecial(nw, p, w) ==
    Flatten([i \in 1..nw |-> IF i - 1 = p THEN w ELSE Filler(i - 1)])

\* nw words with 99999.99f at word p and 100000.0f four words later
BoundaryPair(nw, p) ==
    Flatten([i \in 1..nw |-> IF i - 1 = p THEN WBelow
                             ELSE IF i - 1 = p + 4 THEN WThreshold
                             ELSE Filler(i - 1)])

\* a word in byte order e, given most significant byte first
InOrder(w, e) == IF e = Big THEN w ELSE Reverse(w)

\* record k of a file written with records of sw words in byte order e: a
\* Vehicle or Road id, three coordinates just below the threshold (they are
\* implausible read in the other order), and Road ids as padding
LayoutRecord(sw, e, k) ==
    [j \in 1..sw |->
        IF j = 1 THEN InOrder(IF k % 2 = 0 THEN WVehicle ELSE WRoad, e)
        ELSE IF j <= 4 THEN InOrder(<<71, 195, 79, 255 - k>>, e)
        ELSE InOrder(WRoad, e)]

\* a file with a header of hw implausible words and n such records
Layout(sw, e, hw, n) ==
    Flatten([i \in 1..hw |-> WRoad])
    \o Flatten([i \in 1..(n * sw) |-> LayoutRecord(sw, e, (i - 1) \div sw)[((i - 1) % sw) + 1]])

Inputs ==
    { PlainInput(nw, extra) : nw \in 0..MaxWords, extra \in 0..3 }
    \cup { BoundaryPair(q[1], q[2]) :
             q \in {r \in (1..MaxWords) \X (0..MaxWords) : r[2] + 4 < r[1]} }
    \cup { OneSpecial(q[1], q[2], w) :
             q \in {r \in (1..MaxWords) \X (0..MaxWords) : r[2] < r[1]},
             w \in SpecialWords }
    \cup { Layout(candidateRecordSizes[q[1]] \div 4, e, q[2], q[3]) :
             q \in {r \in (1..Len(candidateRecordSizes)) \X (0..MaxWords) \X (1..MaxWords) :
                      r[2] + r[3] * (candidateRecordSizes[r[1]] \div 4) <= MaxWords},
             e \in {Big, Little} }

\* bestSize starts at the first candidate size
InitialBestFirstSize == [objects |-> <<>>, size |-> 16, header |-> 0, endian |-> Big]

\* bestObjects, bestSize, bestHeader, detectedEndian as main declares them
InitialBest == [objects |-> <<>>, size |-> 0, header |-> 0, endian |-> Big]

NoFrame == [recordSize |-> 0, endian |-> Big, headerOffset |-> 0,
            objects |-> <<>>, offset |-> 0, result |-> <<>>, bestHeader |-> 0]
NoRt == [value |-> <<0, 0>>, order |-> Big, bytes |-> <<>>, be |-> <<0, 0>>,
         le |-> <<0, 0>>, beF |-> <<0, 0>>, leF |-> <<0, 0>>]

Init ==
    /\ pc = "load"
    /\ input \in Inputs
    /\ buffer = <<>>
    /\ sizeIdx = 1
    /\ frame = NoFrame
    /\ objsBE = <<>> /\ headerBE = 0 /\ objsLE = <<>> /\ headerLE = 0
    /\ bestObjects = InitialBest.objects /\ bestSize = InitialBest.size
    /\ bestHeader = InitialBest.header /\ detectedEndian = InitialBest.endian
    /\ listIdx = 0
    /\ typeCounts = <<>>
    /\ stdout = <<>> /\ stderr = <<>> /\ outFile = <<>> /\ exitStatus = -1
    /\ scans = {}
    /\ nScans = 0
    /\ decodes = 0
    /\ maxIndexRead = -1
    /\ rt = NoRt

(***************************************************************************)
(* main, up to the search loop.                                            *)
(***************************************************************************)
histVars == <<scans, nScans, decodes, maxIndexRead>>

\* Buffer buffer = fileLoader::Load("map.pdl");
Load ==
    /\ pc = "load"
    /\ buffer' = input
    /\ pc' = "for"
    /\ UNCHANGED <<input, sizeIdx, frame, mainVars, outVars, histVars, rt>>

\* fileLoader::Load throws; catch (const std::exception&) reports and returns 1
\* (the text of e.what() is not modelled)
LoadFail ==
    /\ pc = "load"
    /\ stderr' = Append(stderr, "[cpdl] Error: load")
    /\ exitStatus' = 1
    /\ pc' = "done"
    /\ UNCHANGED <<input, buffer, sizeIdx, frame, mainVars, listIdx,
                   typeCounts, stdout, outFile, histVars, rt>>

\* entry of tryRecordSize and of the first iteration of its for loop
EnterTry(recordSize, endian) ==
    [recordSize |-> recordSize, endian |-> endian, headerOffset |-> 0,
     objects |-> <<>>, offset |-> 0, result |-> <<>>, bestHeader |-> 0]

\* auto objsBE = tryRecordSize(buffer, size, headerBE, Endianness::Big);
CallBE ==
    /\ pc = "for"
    /\ sizeIdx <= Len(candidateRecordSizes)
    /\ frame' = EnterTry(candidateRecordSizes[sizeIdx], Big)
    /\ scans' = scans \cup {<<candidateRecordSizes[sizeIdx], Big, 0>>}
    /\ nScans' = nScans + 1
    /\ decodes' = 0
    /\ pc' = "while"
    /\ UNCHANGED <<input, buffer, sizeIdx, mainVars, outVars, maxIndexRead, rt>>

\* auto objsLE = tryRecordSize(buffer, size, headerLE, Endianness::Little);
CallLE ==
    /\ pc = "callLE"
    /\ frame' = EnterTry(candidateRecordSizes[sizeIdx], Little)
    /\ scans' = scans \cup {<<candidateRecordSizes[sizeIdx], Little, 0>>}
    /\ nScans' = nScans + 1
    /\ decodes' = 0
    /\ pc' = "while"
    /\ UNCHANGED <<input, buffer, sizeIdx, mainVars, outVars, maxIndexRead, rt>>

(***************************************************************************)
(* tryRecordSize.                                                          *)
(***************************************************************************)
Max(a, b) == IF a > b THEN a ELSE b

\* the record at offset is plausible: push_back, offset += recordSize
ScanAccept ==
    /\ pc = "while"
    /\ WhileCond(frame.offset, frame.recordSize, Len(buffer))
    /\ \E junk \in {0, 255} :
         LET obj == DecodeObject(buffer, frame.offset, frame.endian, junk)
         IN  /\ Plausible(obj)
             /\ frame' = [frame EXCEPT !.objects = Append(@, obj),
                                       !.offset = @ + frame.recordSize]
    /\ decodes' = decodes + 1
    /\ maxIndexRead' = Max(maxIndexRead, frame.offset + 15)
    /\ UNCHANGED <<pc, input, buffer, sizeIdx, mainVars, outVars, scans,
                   nScans, rt>>

\* bestHeader is taken after headerOffset has moved on
AfterWhileLateHeader(f) ==
    LET better == RunBeats(f.objects, f.result)
    IN  [f EXCEPT !.result = IF better THEN f.objects ELSE @,
                  !.bestHeader = IF better THEN f.headerOffset + HeaderStep ELSE @,
                  !.headerOffset = @ + HeaderStep,
                  !.objects = <<>>,
                  !.offset = f.headerOffset + HeaderStep]

\* the frame after the while loop has ended with the run objects: the update
\* of the best run, headerOffset += 4 and the start of the next iteration
AfterWhile(f) ==
    LET better == RunBeats(f.objects, f.result)
    IN  [f EXCEPT !.result = IF better THEN f.objects ELSE @,
                  !.bestHeader = IF better THEN f.headerOffset ELSE @,
                  !.headerOffset = @ + HeaderStep,
                  !.objects = <<>>,
                  !.offset = f.headerOffset + HeaderStep]

\* the implausible record is skipped and the scan goes on
ScanRejectResumes ==
    /\ pc = "while"
    /\ WhileCond(frame.offset, frame.recordSize, Len(buffer))
    /\ \E junk \in {0, 255} :
         ~Plausible(DecodeObject(buffer, frame.offset, frame.endian, junk))
    /\ frame' = [frame EXCEPT !.offset = @ + frame.recordSize]
    /\ decodes' = decodes + 1
    /\ maxIndexRead' = Max(maxIndexRead, frame.offset + 15)
    /\ UNCHANGED <<pc, input, buffer, sizeIdx, mainVars, outVars, scans,
                   nScans, rt>>

\* the record at offset is not plausible: break
ScanReject ==
    /\ pc = "while"
    /\ WhileCond(frame.offset, frame.recordSize, Len(buffer))
    /\ \E junk \in {0, 255} :
         ~Plausible(DecodeObject(buffer, frame.offset, frame.endian, junk))
    /\ decodes' = decodes + 1
    /\ maxIndexRead' = Max(maxIndexRead, frame.offset + 15)
    /\ pc' = "endwhile"
    /\ UNCHANGED <<input, buffer, sizeIdx, frame, mainVars, outVars, scans,
                   nScans, rt>>

\* fewer than recordSize bytes remain: the while condition is false
ScanExhausted ==
    /\ pc = "while"
    /\ ~WhileCond(frame.offset, frame.recordSize, Len(buffer))
    /\ pc' = "endwhile"
    /\ UNCHANGED <<input, buffer, sizeIdx, frame, mainVars, outVars, histVars, rt>>

\* what follows the while loop: the update of the best run, then the next
\* header offset or the return to main (headerSizeOut = bestHeader; return
\* result;)
EndScan ==
    /\ pc = "endwhile"
    /\ LET f == AfterWhile(frame)
       IN  /\ frame' = f
           /\ IF ForCond(f.headerOffset)
              THEN /\ pc' = "while"
                   /\ scans' = scans \cup {<<f.recordSize, f.endian, f.headerOffset>>}
                   /\ nScans' = nScans + 1
                   /\ decodes' = 0
                   /\ UNCHANGED <<objsBE, headerBE, objsLE, headerLE>>
              ELSE /\ UNCHANGED <<scans, nScans, decodes>>
                   /\ IF f.endian = Big
                      THEN /\ objsBE' = f.result
                           /\ headerBE' = f.bestHeader
                           /\ pc' = "callLE"
                           /\ UNCHANGED <<objsLE, headerLE>>
                      ELSE /\ objsLE' = f.result
                           /\ headerLE' = f.bestHeader
                           /\ pc' = "select"
                           /\ UNCHANGED <<objsBE, headerBE>>
    /\ UNCHANGED <<input, buffer, sizeIdx, bestObjects, bestSize, bestHeader,
                   detectedEndian, outVars, maxIndexRead, rt>>

(***************************************************************************)
(* main: the selection across record sizes and byte orders (lines 128-140) *)
(***************************************************************************)
Select ==
    /\ pc = "select"
    /\ LET size == candidateRecordSizes[sizeIdx]
           takeBE == CandidateBeats(objsBE, bestObjects)
           objs1 == IF takeBE THEN objsBE ELSE bestObjects
           size1 == IF takeBE THEN size ELSE bestSize
           head1 == IF takeBE THEN headerBE ELSE bestHeader
           end1 == IF takeBE THEN Big ELSE detectedEndian
           takeLE == CandidateBeats(objsLE, objs1)
       IN  /\ bestObjects' = IF takeLE THEN objsLE ELSE objs1
           /\ bestSize' = IF takeLE THEN size ELSE size1
           /\ bestHeader' = IF takeLE THEN headerLE ELSE head1
           /\ detectedEndian' = IF takeLE THEN Little ELSE end1
    /\ sizeIdx' = sizeIdx + 1
    /\ pc' = "for"
    /\ UNCHANGED <<input, buffer, frame, objsBE, headerBE, objsLE, headerLE,
                   outVars, histVars, rt>>

\* the range-for over candidateRecordSizes is over
EndFor ==
    /\ pc = "for"
    /\ sizeIdx > Len(candidateRecordSizes)
    /\ pc' = "summary"
    /\ UNCHANGED <<input, buffer, sizeIdx, frame, mainVars, outVars, histVars, rt>>

(***************************************************************************)
(* Output of cpdl.cpp: summary, record listing, type frequencies.          *)
(* A line is a record of the values streamed into it; the rendering of a   *)
(* value as text (setw, hex, fixed) is not modelled.                       *)
(***************************************************************************)
EndianName(e) == IF e = Big THEN "Big Endian" ELSE "Little Endian"

\* the three lines both programs print first
SummaryHead ==
    << [tag |-> "Detected record size", size |-> bestSize],
       [tag |-> "Skipped header bytes", header |-> bestHeader],
       [tag |-> "Detected endianness", endian |-> EndianName(detectedEndian)] >>

SummaryCpdl ==
    /\ pc = "summary"
    /\ stdout' = stdout \o SummaryHead
                   \o << [tag |-> "Parsed objects:", count |-> Len(bestObjects)] >>
    /\ typeCounts' = <<>>
    /\ listIdx' = 0
    /\ pc' = "list"
    /\ UNCHANGED <<input, buffer, sizeIdx, frame, mainVars, stderr, outFile,
                   exitStatus, histVars, rt>>

\* typeCounts[type]++
Count(counts, type) ==
    [t \in DOMAIN counts \cup {type} |->
        IF t = type
        THEN (IF type \in DOMAIN counts THEN counts[type] + 1 ELSE 1)
        ELSE counts[t]]

\* one iteration of for (size_t i = 0; i < bestObjects.size(); ++i)
ListRecord ==
    /\ pc = "list"
    /\ listIdx < Len(bestObjects)
    /\ LET o == bestObjects[listIdx + 1]
       IN  /\ typeCounts' = Count(typeCounts, o.type)
           /\ stdout' = Append(stdout,
                  [tag |-> "record", i |-> listIdx, offset |-> o.offset,
                   type |-> o.type, name |-> getTypeName(o.type),
                   x |-> o.x, y |-> o.y, z |-> o.z])
    /\ listIdx' = listIdx + 1
    /\ UNCHANGED <<pc, input, buffer, sizeIdx, frame, mainVars, stderr,
                   outFile, exitStatus, histVars, rt>>

\* operator< of uint32_t
U32Less(a, b) == a[1] < b[1] \/ (a[1] = b[1] /\ a[2] < b[2])

\* the keys of a std::map in iteration order
RECURSIVE Ascending(_)
Ascending(keys) ==
    IF keys = {} THEN <<>>
    ELSE LET least == CHOOSE k \in keys : \A j \in keys \ {k} : U32Less(k, j)
         IN  <<least>> \o Ascending(keys \ {least})

\* the listing loop is over: the frequency table, return 0
Frequencies ==
    /\ pc = "list"
    /\ ~(listIdx < Len(bestObjects))
    /\ LET keys == Ascending(DOMAIN typeCounts)
       IN  stdout' = stdout \o << [tag |-> "Type Frequencies:"] >>
                     \o [k \in 1..Len(keys) |->
                           [tag |-> "frequency", type |-> keys[k],
                            name |-> getTypeName(keys[k]),
                            count |-> typeCounts[keys[k]]]]
    /\ exitStatus' = 0
    /\ pc' = "done"
    /\ UNCHANGED <<input, buffer, sizeIdx, frame, mainVars, listIdx,
                   typeCounts, stderr, outFile, histVars, rt>>

(***************************************************************************)
(* Output of part_000: summary, then map_unpacked.txt.                     *)
(***************************************************************************)
SummaryUnpack ==
    /\ pc = "summary"
    /\ stdout' = stdout \o SummaryHead
                   \o << [tag |-> "Parsed objects.", count |-> Len(bestObjects)] >>
    /\ pc' = "open"
    /\ UNCHANGED <<input, buffer, sizeIdx, frame, mainVars, listIdx,
                   typeCounts, stderr, outFile, exitStatus, histVars, rt>>

\* std::ofstream out(outputFile) opens; the comment line is written
OpenOut ==
    /\ pc = "open"
    /\ outFile' = << [tag |-> "# type_id type_name x y z"] >>
    /\ listIdx' = 0
    /\ pc' = "write"
    /\ UNCHANGED <<input, buffer, sizeIdx, frame, mainVars, typeCounts,
                   stdout, stderr, exitStatus, histVars, rt>>

\* !out.is_open(): report and return 1
OpenFail ==
    /\ pc = "open"
    /\ stderr' = Append(stderr, "[cpdl] Error: Failed to open output file.")
    /\ exitStatus' = 1
    /\ pc' = "done"
    /\ UNCHANGED <<input, buffer, sizeIdx, frame, mainVars, listIdx,
                   typeCounts, stdout, outFile, histVars, rt>>

\* one iteration of for (const auto& o : bestObjects)
WriteRecord ==
    /\ pc = "write"
    /\ listIdx < Len(bestObjects)
    /\ LET o == bestObjects[listIdx + 1]
       IN  outFile' = Append(outFile,
                  [tag |-> "record", type |-> o.type,
                   name |-> getTypeName(o.type), x |-> o.x, y |-> o.y, z |-> o.z])
    /\ listIdx' = listIdx + 1
    /\ UNCHANGED <<pc, input, buffer, sizeIdx, frame, mainVars, typeCounts,
                   stdout, stderr, exitStatus, histVars, rt>>

\* out.close(), the closing message, return 0
CloseOut ==
    /\ pc = "write"
    /\ ~(listIdx < Len(bestObjects))
    /\ stdout' = Append(stdout, [tag |-> "Unpacked file written to",
                                 file |-> "map_unpacked.txt"])
    /\ exitStatus' = 0
    /\ pc' = "done"
    /\ UNCHANGED <<input, buffer, sizeIdx, frame, mainVars, listIdx,
                   typeCounts, stderr, outFile, histVars, rt>>

Next ==
    \/ Load
    \/ LoadFail
    \/ CallBE
    \/ CallLE
    \/ ScanAccept
    \/ ScanReject
    \/ ScanExhausted
    \/ EndScan
    \/ Select
    \/ EndFor
    \/ SummaryCpdl
    \/ ListRecord
    \/ Frequencies
    \/ SummaryUnpack
    \/ OpenOut
    \/ OpenFail
    \/ WriteRecord
    \/ CloseOut

Spec == Init /\ [][Next]_vars

\* every run of main ends: the program is sequential and takes its next step
FairSpec == Spec /\ WF_vars(Next)

(***************************************************************************)
(* The byte readers on their own: a 32-bit value is laid out in 4 bytes in *)
(* one of the two orders and read back with every reader.                  *)
(***************************************************************************)
HalfSamples == {0, 1, 255, 256, 18371, 23013, 32768, 52446, 65535}

\* the 4 bytes of value, most significant first
BytesMSB(value) ==
    << value[1] \div 256, value[1] % 256, value[2] \div 256, value[2] % 256 >>

InitRT ==
    /\ pc = "rt_write"
    /\ \E hi \in HalfSamples, lo \in HalfSamples, order \in {Big, Little} :
         rt = [NoRt EXCEPT !.value = <<hi, lo>>, !.order = order]
    /\ input = <<>>
    /\ buffer = <<>>
    /\ sizeIdx = 1
    /\ frame = NoFrame
    /\ objsBE = <<>> /\ headerBE = 0 /\ objsLE = <<>> /\ headerLE = 0
    /\ bestObjects = InitialBest.objects /\ bestSize = InitialBest.size
    /\ bestHeader = InitialBest.header /\ detectedEndian = InitialBest.endian
    /\ listIdx = 0
    /\ typeCounts = <<>>
    /\ stdout = <<>> /\ stderr = <<>> /\ outFile = <<>> /\ exitStatus = -1
    /\ scans = {}
    /\ nScans = 0
    /\ decodes = 0
    /\ maxIndexRead = -1

RtWrite ==
    /\ pc = "rt_write"
    /\ rt' = [rt EXCEPT !.bytes = IF rt.order = Big THEN BytesMSB(rt.value)
                                  ELSE Reverse(BytesMSB(rt.value))]
    /\ pc' = "rt_read"
    /\ UNCHANGED <<input, buffer, sizeIdx, frame, mainVars, outVars, histVars>>

\* all four readers applied to the 4 bytes
RtRead ==
    /\ pc = "rt_read"
    /\ rt' = [rt EXCEPT !.be = readBEUInt32(rt.bytes, 0, 0),
                        !.le = readLEUInt32(rt.bytes, 0, 0),
                        !.beF = readBEFloat(rt.bytes, 0, 0),
                        !.leF = readLEFloat(rt.bytes, 0, 0)]
    /\ pc' = "rt_done"
    /\ UNCHANGED <<input, buffer, sizeIdx, frame, mainVars, outVars, histVars>>

NextRT ==
    \/ RtWrite
    \/ RtRead

SpecRT == InitRT /\ [][NextRT]_vars

(***************************************************************************)
(* What the claims speak of, stated independently of the search: the       *)
(* greedy run of a (size, offset, order) and the counts of the 8           *)
(* (size, order) candidates.                                               *)
(***************************************************************************)
ThresholdBits == 1203982336

\* the magnitude bits of a float; they order as |f| does, NaN above infinity
Mag(f) == (f[1] % 32768) * 65536 + f[2]

CoordOK(f) == Mag(f) < ThresholdBits

\* the 4-byte word w of data as a 32-bit value in byte order e
WordValue(data, w, e) ==
    LET b == [i \in 1..4 |-> data[4 * w + i]]
    IN  IF e = Big THEN <<256 * b[1] + b[2], 256 * b[3] + b[4]>>
        ELSE <<256 * b[4] + b[3], 256 * b[2] + b[1]>>

\* which whole words of data are plausible coordinates in byte order e
WordOK(data, e) ==
    [w \in 0..(Len(data) \div 4 - 1) |-> CoordOK(WordValue(data, w, e))]

\* record k of the layout (size, h) lies in the buffer and its three
\* coordinate words (the 2nd to 4th of the record) are plausible; offsets
\* and sizes are multiples of 4
RecordOK(ok, len, size, h, k) ==
    /\ h + (k + 1) * size <= len
    /\ \A c \in 1..3 : ok[(h + k * size) \div 4 + c]

\* the index of the first record that is missing or implausible
FirstBad(ok, len, size, h) ==
    CHOOSE n \in 0..(len \div size) :
        /\ \A k \in 0..(n - 1) : RecordOK(ok, len, size, h, k)
        /\ ~RecordOK(ok, len, size, h, n)

GreedyLen(data, size, h, e) == FirstBad(WordOK(data, e), Len(data), size, h)

RecordAt(data, size, h, k, e) == DecodeObject(data, h + k * size, e, 0)

GreedyRun(data, size, h, e) ==
    [k \in 1..GreedyLen(data, size, h, e) |-> RecordAt(data, size, h, k - 1, e)]

HeaderOffsets == {4 * i : i \in 0..15}

\* the run length of every header offset
RunLens(data, size, e) ==
    LET ok == WordOK(data, e)
    IN  [h \in HeaderOffsets |-> FirstBad(ok, Len(data), size, h)]

SetMax(S) == CHOOSE m \in S : \A n \in S : n <= m

BestLen(data, size, e) ==
    LET lens == RunLens(data, size, e)
    IN  SetMax({lens[h] : h \in HeaderOffsets})

\* the 8 candidates in the order main evaluates them
Candidates ==
    << <<16, Big>>, <<16, Little>>, <<20, Big>>, <<20, Little>>,
       <<24, Big>>, <<24, Little>>, <<32, Big>>, <<32, Little>> >>

\* the record count of every candidate
CandidateCounts ==
    [i \in 1..Len(Candidates) |-> BestLen(buffer, Candidates[i][1], Candidates[i][2])]

\* candidate i is the first one with the largest count
EarliestLargest(count, i) ==
    /\ \A j \in 1..Len(Candidates) : count[j] <= count[i]
    /\ \A j \in 1..(i - 1) : count[j] < count[i]

RetainedIs(count, i) ==
    /\ bestSize = Candidates[i][1]
    /\ detectedEndian = Candidates[i][2]
    /\ Len(bestObjects) = count[i]

\* C1 as stated: after the search the retained result has the largest of the
\* 8 counts and (bestSize, detectedEndian) is the earliest candidate with
\* that count.
C1_RetainedIsEarliestLargest ==
    pc = "summary" =>
        LET count == CandidateCounts
        IN  \E i \in 1..Len(Candidates) :
                EarliestLargest(count, i) /\ RetainedIs(count, i)

\* C1 amended: the same, when some candidate has a record; when none has,
\* nothing is retained and bestSize stays 0.
C1_RetainedIsEarliestLargestNonEmpty ==
    pc = "summary" =>
        LET count == CandidateCounts
        IN  /\ \A j \in 1..Len(Candidates) : count[j] <= Len(bestObjects)
            /\ (\E j \in 1..Len(Candidates) : count[j] > 0) =>
                   \E i \in 1..Len(Candidates) :
                       EarliestLargest(count, i) /\ RetainedIs(count, i)
            /\ (\A j \in 1..Len(Candidates) : count[j] = 0) =>
                   bestSize = 0 /\ bestObjects = <<>>

\* sizes 16 and 20 both yield exactly 3 records, nothing yields more, and
\* size 16 big-endian is reported
C1_Witness ==
    /\ pc = "summary"
    /\ bestSize = 16
    /\ detectedEndian = Big
    /\ Len(bestObjects) = 3
    /\ LET count == CandidateCounts
       IN  /\ count[1] = 3
           /\ count[3] = 3
           /\ \A j \in 1..Len(Candidates) : count[j] <= 3

\* what tryRecordSize(buffer, size, header, e) returned as objs and header
ReturnedBest(objs, header, size, e) ==
    /\ header \in HeaderOffsets
    /\ LET lens == RunLens(buffer, size, e)
       IN  /\ Len(objs) = lens[header]
           /\ \A h \in HeaderOffsets : lens[h] <= lens[header]
           /\ \A h \in HeaderOffsets : lens[h] = lens[header] => header <= h
    /\ objs = GreedyRun(buffer, size, header, e)

\* C2: tryRecordSize returns the longest greedy run over the header offsets
\* 0, 4, ..., 60, the smallest offset among those of that length, and the
\* returned run is the run scanned from the returned offset.
C2_TryRecordSizeReturnsBest ==
    /\ pc = "callLE" =>
          ReturnedBest(objsBE, headerBE, candidateRecordSizes[sizeIdx], Big)
    /\ pc = "select" =>
          /\ ReturnedBest(objsBE, headerBE, candidateRecordSizes[sizeIdx], Big)
          /\ ReturnedBest(objsLE, headerLE, candidateRecordSizes[sizeIdx], Little)

\* a call returned a non-zero offset that a later offset ties with
C2_Witness ==
    /\ pc = "select"
    /\ headerLE > 0
    /\ Len(objsLE) >= 2
    /\ \E h \in HeaderOffsets :
          /\ h > headerLE
          /\ GreedyLen(buffer, candidateRecordSizes[sizeIdx], h, Little) = Len(objsLE)
    /\ \E h \in HeaderOffsets :
          /\ h < headerLE
          /\ GreedyLen(buffer, candidateRecordSizes[sizeIdx], h, Little) > 0

FirstStop == GreedyLen(buffer, frame.recordSize, frame.headerOffset, frame.endian)

\* C3: a scan never holds more records than precede the first implausible
\* (or missing) record from its header offset, and ends with exactly those,
\* whatever follows that record.
C3_GreedyTruncation ==
    /\ pc = "while" => Len(frame.objects) <= FirstStop
    /\ pc = "endwhile" =>
          frame.objects =
              GreedyRun(buffer, frame.recordSize, frame.headerOffset, frame.endian)

\* two records are held, the next one is implausible, and the one after it
\* lies in the buffer and is plausible
C3_Witness ==
    /\ pc = "endwhile"
    /\ Len(frame.objects) >= 2
    /\ frame.offset + 2 * frame.recordSize <= Len(buffer)
    /\ ~Plausible(DecodeObject(buffer, frame.offset, frame.endian, 0))
    /\ Plausible(DecodeObject(buffer, frame.offset + frame.recordSize, frame.endian, 0))

\* the search is over and its result is being, or has been, reported
SearchOver ==
    \/ pc \in {"summary", "list", "open", "write"}
    \/ pc = "done" /\ stdout # <<>>

\* the input is shorter than the smallest record, or no candidate has a record
EmptyCase ==
    \/ Len(buffer) < 16
    \/ \A i \in 1..Len(Candidates) : CandidateCounts[i] = 0

EmptyResult ==
    /\ bestSize = 0
    /\ bestObjects = <<>>
    /\ bestHeader = 0
    /\ detectedEndian = Big

IsRecordLine(line) == line.tag = "record"

\* the summary on the console reports size 0, header 0, Big Endian, 0 objects
EmptySummary ==
    /\ Len(stdout) >= 4
    /\ stdout[1].size = 0
    /\ stdout[2].header = 0
    /\ stdout[3].endian = "Big Endian"
    /\ stdout[4].count = 0
    /\ SelectSeq(stdout, IsRecordLine) = <<>>
    /\ SelectSeq(outFile, IsRecordLine) = <<>>

SinkUnavailable == stderr = <<"[cpdl] Error: Failed to open output file.">>

RunPlausible(run) ==
    \A i \in 1..Len(run) : CoordOK(run[i].x) /\ CoordOK(run[i].y) /\ CoordOK(run[i].z)

AllHeldPlausible ==
    /\ RunPlausible(frame.objects)
    /\ RunPlausible(frame.result)
    /\ RunPlausible(objsBE)
    /\ RunPlausible(objsLE)
    /\ RunPlausible(bestObjects)

IsPrefix(s, t) == Len(s) <= Len(t) /\ \A i \in 1..Len(s) : s[i] = t[i]

\* C5: every record held in a run has |x|, |y|, |z| < 100000.0; a decoded
\* record is appended exactly when all three are below the threshold; a
\* running scan only ever appends to its run.
C5_PlausibilityInvariant ==
    [][/\ AllHeldPlausible'
       /\ (pc = "while" /\ frame.offset + frame.recordSize <= Len(buffer)) =>
             LET obj == DecodeObject(buffer, frame.offset, frame.endian, 0)
             IN  IF CoordOK(obj.x) /\ CoordOK(obj.y) /\ CoordOK(obj.z)
                 THEN frame'.objects = Append(frame.objects, obj)
                 ELSE (pc' = "endwhile" /\ frame'.objects = frame.objects)
       /\ pc = "while" => IsPrefix(frame.objects, frame'.objects)
      ]_vars

Just_99999_99 == <<18371, 20479>>
Exactly_100000 == <<18371, 20480>>

\* the record just appended has x = 99999.99f and the record about to be
\* decoded has x = 100000.0f
C5_Witness ==
    /\ pc = "while"
    /\ Len(frame.objects) >= 1
    /\ frame.objects[Len(frame.objects)].x = Just_99999_99
    /\ frame.offset + frame.recordSize <= Len(buffer)
    /\ DecodeObject(buffer, frame.offset, frame.endian, 0).x = Exactly_100000

\* the records of bestObjects lie at bestHeader, bestHeader + bestSize, ...
OffsetsRegular ==
    \A i \in 1..Len(bestObjects) :
        bestObjects[i].offset = bestHeader + (i - 1) * bestSize

\* the first n records, in order, are what the record lines show
LinesShow(lines, n, withOffset) ==
    /\ Len(lines) = n
    /\ \A i \in 1..Len(lines) :
          /\ lines[i].type = bestObjects[i].type
          /\ lines[i].x = bestObjects[i].x
          /\ lines[i].y = bestObjects[i].y
          /\ lines[i].z = bestObjects[i].z
          /\ withOffset => /\ lines[i].i = i - 1
                           /\ lines[i].offset = bestHeader + (i - 1) * bestSize

\* C6: the records of the winning run are in buffer order at offsets
\* bestHeader + i * bestSize, the winning run is the whole greedy run of the
\* reported layout, and the record lines emitted are its records, all of
\* them once the run has ended, in that order.
C6_BufferOrderAndCompleteness ==
    /\ OffsetsRegular
    /\ (SearchOver /\ bestSize # 0) =>
          bestObjects = GreedyRun(buffer, bestSize, bestHeader, detectedEndian)
    /\ pc = "list" =>
          LinesShow(SelectSeq(stdout, IsRecordLine), listIdx, TRUE)
    /\ pc = "write" =>
          LinesShow(SelectSeq(outFile, IsRecordLine), listIdx, FALSE)
    /\ (pc = "done" /\ exitStatus = 0 /\ outFile = <<>>) =>
          LinesShow(SelectSeq(stdout, IsRecordLine), Len(bestObjects), TRUE)
    /\ (pc = "done" /\ exitStatus = 0 /\ outFile # <<>>) =>
          LinesShow(SelectSeq(outFile, IsRecordLine), Len(bestObjects), FALSE)

\* a run of three records behind a non-empty header has been listed
C6_Witness ==
    /\ pc = "done"
    /\ exitStatus = 0
    /\ outFile = <<>>
    /\ bestHeader > 0
    /\ Len(bestObjects) >= 3
    /\ Len(SelectSeq(stdout, IsRecordLine)) = Len(bestObjects)

\* C7: a run that ends with a non-zero status has produced no result output,
\* neither the summary nor a record line, and a run whose input cannot be
\* loaded has searched nothing.
C7_FatalLeavesNoOutput ==
    (pc = "done" /\ exitStatus # 0) =>
        /\ stdout = <<>>
        /\ outFile = <<>>
        /\ stderr = <<"[cpdl] Error: load">> => nScans = 0

AllScans ==
    { <<candidateRecordSizes[i], e, h>> :
        i \in 1..Len(candidateRecordSizes), e \in {Big, Little}, h \in HeaderOffsets }

\* C8: every run ends; the search makes one scan for each of the 128
\* (size, order, offset) tuples; a scan does at most
\* floor(buffer length / record size) decodes, its position being the header
\* offset plus record size times the records accepted.
C8_TerminatesBounded ==
    /\ <>(pc = "done")
    /\ [](pc = "summary" =>
            /\ nScans = 128
            /\ scans = AllScans
            /\ Cardinality(scans) = nScans)
    /\ [](pc \in {"while", "endwhile"} =>
            /\ <<frame.recordSize, frame.endian, frame.headerOffset>> \in scans
            /\ decodes <= Len(buffer) \div frame.recordSize
            /\ decodes \in {Len(frame.objects), Len(frame.objects) + 1}
            /\ frame.offset = frame.headerOffset + Len(frame.objects) * frame.recordSize)

\* the search is over and the winning scan did as many decodes as the
\* buffer has records of its size
C8_Witness ==
    /\ pc = "summary"
    /\ nScans = 128
    /\ Len(bestObjects) >= 3
    /\ Len(bestObjects) = Len(buffer) \div bestSize

\* C9: a value written most significant byte first is read back by
\* readBEUInt32 and readBEFloat, one written least significant byte first by
\* readLEUInt32 and readLEFloat, and the little-endian read of any 4 bytes is
\* the big-endian read of the reversed bytes.
C9_RoundTrip ==
    pc = "rt_done" =>
        /\ rt.order = Big => (rt.be = rt.value /\ rt.beF = rt.value)
        /\ rt.order = Little => (rt.le = rt.value /\ rt.leF = rt.value)
        /\ rt.le = readBEUInt32(Reverse(rt.bytes), 0, 0)
        /\ rt.leF = rt.le /\ rt.beF = rt.be

\* the Vehicle id written least significant byte first has been read back
C9_Witness ==
    /\ pc = "rt_done"
    /\ rt.order = Little
    /\ rt.value = VehicleId
    /\ rt.bytes = <<229, 89, 222, 204>>
    /\ rt.le = VehicleId
    /\ rt.be # VehicleId

\* C10: no byte of the buffer is read at an index that is not below its
\* length, and the buffer is not written once loaded.
C10_ReadsInBounds ==
    [][/\ maxIndexRead' < Len(buffer')
       /\ (pc = "while" /\ maxIndexRead' # maxIndexRead) =>
             (maxIndexRead' = frame.offset + 15 /\ frame.offset + 15 < Len(buffer))
       /\ pc # "load" => buffer' = buffer
      ]_vars

\* the last byte of the buffer has been read and a scan now starts at a
\* header offset beyond the end of the buffer
C10_Witness ==
    /\ pc = "while"
    /\ Len(buffer) > 0
    /\ maxIndexRead = Len(buffer) - 1
    /\ frame.headerOffset > Len(buffer)

====
